---- MODULE Spec2Model ----
(***************************************************************************)
(* Model of advanced_username_recon.py: the response classifier            *)
(* (interpret_response), the probe executor (check_username) and the scan   *)
(* orchestrator (run_scan).                                                 *)
(*                                                                          *)
(* Text (site names, URL templates, URLs, bodies, patterns) is a sequence   *)
(* of one-character strings.  Python's None is the string "None" for the    *)
(* tri-state verdict and for a missing method, and the one-token sequence   *)
(* NoneStr for a missing text.                                              *)
(***************************************************************************)
EXTENDS Naturals, Integers, Sequences, FiniteSets, TLC

\* ------------------------------------------------------------------ bounds

\* largest value of args.concurrency explored (1..MaxConcurrency)
MaxConcurrency == 2

\* ------------------------------------------------------------------ text

NoneStr == <<"None">>

\* str.lower() on the characters of the model's alphabet
LowerChar(c) ==
    CASE c = "X" -> "x"
      [] c = "L" -> "l"
      [] c = "A" -> "a"
      [] c = "N" -> "n"
      [] c = "F" -> "f"
      [] c = "K" -> "k"
      [] OTHER -> c

Lower(s) == [i \in 1..Len(s) |-> LowerChar(s[i])]

RECURSIVE LStrip(_)
LStrip(s) == IF s # <<>> /\ Head(s) = " " THEN LStrip(Tail(s)) ELSE s

RECURSIVE RStrip(_)
RStrip(s) ==
    IF s # <<>> /\ s[Len(s)] = " " THEN RStrip(SubSeq(s, 1, Len(s) - 1)) ELSE s

\* str.strip()
Strip(s) == RStrip(LStrip(s))

\* the Python test `needle in hay`
Contains(hay, needle) ==
    \E i \in 0..Len(hay) :
        /\ i + Len(needle) <= Len(hay)
        /\ SubSeq(hay, i + 1, i + Len(needle)) = needle

\* A pattern of the model is a literal text; the text "(" stands for a
\* pattern the regex compiler rejects.
BadRegex == <<"(">>

\* re.compile(p, re.IGNORECASE).search(text) for a literal pattern
re_search(pat, text) == Contains(Lower(text), Lower(pat))

\* `re.compile(p, re.IGNORECASE) if p else None`: a missing or empty pattern
\* text compiles to None
compile_opt(p) == IF p = NoneStr \/ p = <<>> THEN NoneStr ELSE p

\* str.upper() on the method names of the model
Upper(m) ==
    CASE m = "head" -> "HEAD"
      [] m = "get" -> "GET"
      [] m = "post" -> "POST"
      [] OTHER -> m

\* ------------------------------------------------------------------ verdicts

PyTrue == "True"
PyFalse == "False"
None == "None"
Verdicts == {PyTrue, PyFalse, None}

\* ------------------------------------------------------------------ catalog

\* A raw catalog is what sites.json holds: whether the file exists, whether
\* its JSON value is an object, and the (name, cfg) items in file order.  A
\* cfg key that is absent is NoneStr (texts) or "None" (method).
RawCfg(url, method, skip, nf, bad, must) ==
    [url |-> url, method |-> method, skip |-> skip,
     not_found_regex |-> nf, bad_redirect_regex |-> bad,
     must_contain_regex |-> must]

\* the three compiled patterns load_sites adds to a cfg
Compiled(cfg) ==
    [url |-> cfg.url, method |-> cfg.method, skip |-> cfg.skip,
     not_found_re |-> compile_opt(cfg.not_found_regex),
     bad_redirect_re |-> compile_opt(cfg.bad_redirect_regex),
     must_re |-> compile_opt(cfg.must_contain_regex)]

\* re.compile raises on a malformed pattern text
CompileRaises(cfg) ==
    BadRegex \in {cfg.not_found_regex, cfg.bad_redirect_regex,
                  cfg.must_contain_regex}

\* load_sites: [ok, sites]; ok = FALSE stands for the exception it raises
load_sites(raw) ==
    IF ~raw.exists THEN [ok |-> FALSE, sites |-> <<>>]
    ELSE IF ~raw.isObject THEN [ok |-> FALSE, sites |-> <<>>]
    ELSE IF \E i \in 1..Len(raw.items) : CompileRaises(raw.items[i].cfg)
         THEN [ok |-> FALSE, sites |-> <<>>]
    ELSE [ok |-> TRUE,
          sites |-> [i \in 1..Len(raw.items) |->
                       [name |-> raw.items[i].name,
                        cfg |-> Compiled(raw.items[i].cfg)]]]

\* the names is_x_site accepts: "twitter", "twitter/x", "x"
XNames ==
    { <<"t","w","i","t","t","e","r">>,
      <<"t","w","i","t","t","e","r","/","x">>,
      <<"x">> }

XUrlA == <<"x",".","c","o","m","/","{}">>
XUrlB == <<"t","w","i","t","t","e","r",".","c","o","m","/","{}">>

\* site_data.get("url", ""): the empty text when the key is absent
UrlOrEmpty(site_data) == IF site_data.url = NoneStr THEN <<>> ELSE site_data.url

is_x_site(site_name, site_data) ==
    LET s == Lower(Strip(site_name))
        url == Lower(UrlOrEmpty(site_data))
    IN  IF s \in XNames THEN TRUE
        ELSE Contains(url, XUrlA) \/ Contains(url, XUrlB)

\* mutant: the filter forgets --include-skipped
FilterSitesNoOverride(sites_all, include_skipped) ==
    SelectSeq(sites_all, LAMBDA it : ~it.cfg.skip)

\* the run_scan filter: skip entries dropped unless include_skipped
FilterSites(sites_all, include_skipped) ==
    SelectSeq(sites_all, LAMBDA it : ~(it.cfg.skip /\ ~include_skipped))

\* ------------------------------------------------------------------ classifier

\* limit_chars of read_limited_text
LimitChars == 120000

\* bytes.decode(errors="ignore"): undecodable bytes are dropped
BadByte == "\\xff"
Decode(chunk) == SelectSeq(chunk, LAMBDA c : c # BadByte)

RECURSIVE ReadLoop(_, _, _)
ReadLoop(chunks, read, limit_chars) ==
    IF chunks = <<>> THEN <<>>
    ELSE LET s == Decode(Head(chunks))
         IN  IF read + Len(s) >= limit_chars THEN s
             ELSE s \o ReadLoop(Tail(chunks), read + Len(s), limit_chars)

\* read_limited_text on the chunks resp.content delivers
read_limited_text(resp, limit_chars) == ReadLoop(resp.chunks, 0, limit_chars)

\* mutant: only the final URL is searched, not the redirect chain
looks_like_bad_redirect_final_only(site_data, resp) ==
    LET bad_re == site_data.bad_redirect_re
    IN  IF bad_re = NoneStr THEN FALSE ELSE re_search(bad_re, resp.url)

looks_like_bad_redirect(site_data, resp) ==
    LET bad_re == site_data.bad_redirect_re
    IN  IF bad_re = NoneStr THEN FALSE
        ELSE IF re_search(bad_re, resp.url) THEN TRUE
        ELSE \E h \in 1..Len(resp.history) : re_search(bad_re, resp.history[h])

\* A classification: the tuple returned (raised = "no"), or the exception
\* the body read raised; reads counts the calls of read_limited_text.
Ret(site_name, exists, url, reads) ==
    [raised |-> "no", site |-> site_name, exists |-> exists, url |-> url,
     reads |-> reads]

\* exc is the exception the read raised
Raise(exc, site_name, url, reads) ==
    [raised |-> exc, site |-> site_name, exists |-> None, url |-> url,
     reads |-> reads]

\* mutant: the must-contain rule is applied before the not-found rule
BodyRulesMustFirst(site_name, site_data, url, resp) ==
    LET not_found_re == site_data.not_found_re
        must_re == site_data.must_re
        text == read_limited_text(resp, LimitChars)
    IN  IF resp.readExc # "no" THEN Raise(resp.readExc, site_name, url, 1)
        ELSE IF must_re # NoneStr /\ re_search(must_re, text)
             THEN Ret(site_name, PyTrue, url, 1)
        ELSE IF not_found_re # NoneStr /\ re_search(not_found_re, text)
             THEN Ret(site_name, PyFalse, url, 1)
        ELSE IF must_re # NoneStr THEN Ret(site_name, None, url, 1)
        ELSE Ret(site_name, PyTrue, url, 1)

\* the 200 branch once a body rule applies
BodyRules(site_name, site_data, url, resp) ==
    LET not_found_re == site_data.not_found_re
        must_re == site_data.must_re
        text == read_limited_text(resp, LimitChars)
    IN  IF resp.readExc # "no" THEN Raise(resp.readExc, site_name, url, 1)
        ELSE IF not_found_re # NoneStr /\ re_search(not_found_re, text)
             THEN Ret(site_name, PyFalse, url, 1)
        ELSE IF must_re # NoneStr
             THEN IF re_search(must_re, text)
                  THEN Ret(site_name, PyTrue, url, 1)
                  ELSE Ret(site_name, None, url, 1)
        ELSE Ret(site_name, PyTrue, url, 1)

\* mutant: 410 is not taken for a hard not-found
HardNotFound404(status) == status = 404

\* the hard not-found statuses
HardNotFound(status) == status \in {404, 410}

\* mutant: the tuple carries the URL the response came from
interpret_response_final_url(site_name, site_data, url, resp) ==
    LET status == resp.status
    IN  IF HardNotFound(status) THEN Ret(site_name, PyFalse, resp.url, 0)
        ELSE IF looks_like_bad_redirect(site_data, resp)
             THEN Ret(site_name, None, resp.url, 0)
        ELSE IF status = 200
             THEN IF site_data.not_found_re # NoneStr \/ site_data.must_re # NoneStr
                  THEN BodyRules(site_name, site_data, resp.url, resp)
                  ELSE Ret(site_name, None, resp.url, 0)
        ELSE Ret(site_name, None, resp.url, 0)

\* mutant: a 200 of a profile without body patterns is taken for a hit
interpret_response_plain_hit(site_name, site_data, url, resp) ==
    LET status == resp.status
    IN  IF HardNotFound(status) THEN Ret(site_name, PyFalse, url, 0)
        ELSE IF looks_like_bad_redirect(site_data, resp)
             THEN Ret(site_name, None, url, 0)
        ELSE IF status = 200
             THEN IF site_data.not_found_re # NoneStr \/ site_data.must_re # NoneStr
                  THEN BodyRules(site_name, site_data, url, resp)
                  ELSE Ret(site_name, PyTrue, url, 0)
        ELSE Ret(site_name, None, url, 0)

\* mutant: the body of a 200 is read before the patterns are looked at
interpret_response_reads_first(site_name, site_data, url, resp) ==
    LET status == resp.status
    IN  IF HardNotFound(status) THEN Ret(site_name, PyFalse, url, 0)
        ELSE IF looks_like_bad_redirect(site_data, resp)
             THEN Ret(site_name, None, url, 0)
        ELSE IF status = 200
             THEN IF site_data.not_found_re # NoneStr \/ site_data.must_re # NoneStr
                  THEN BodyRules(site_name, site_data, url, resp)
                  ELSE Ret(site_name, None, url, 1)
        ELSE Ret(site_name, None, url, 0)

interpret_response(site_name, site_data, url, resp) ==
    LET status == resp.status
    IN  IF HardNotFound(status) THEN Ret(site_name, PyFalse, url, 0)
        ELSE IF looks_like_bad_redirect(site_data, resp)
             THEN Ret(site_name, None, url, 0)
        ELSE IF status = 200
             THEN IF site_data.not_found_re # NoneStr \/ site_data.must_re # NoneStr
                  THEN BodyRules(site_name, site_data, url, resp)
                  ELSE Ret(site_name, None, url, 0)
        ELSE IF status \in {301, 302, 303, 307, 308, 401, 403, 405, 429, 500, 502, 503}
             THEN Ret(site_name, None, url, 0)
        ELSE Ret(site_name, None, url, 0)

\* ------------------------------------------------------------------ inputs

NameX == <<"X"," ">>
NameTw == <<"t","w">>
NameGh == <<"g","h">>
NameA == <<"a">>
NameB == <<"b">>

UrlTco == <<"t",".","c","o","/","{}">>
UrlGh == <<"g","h",".","i","o","/","{}">>
UrlTwo == <<"b","/","{}","{}">>

PatNf == <<"n","f">>
PatMust == <<"o","k">>
PatBad == <<"l","o","g">>

CfgX == RawCfg(UrlTco, "get", FALSE, PatNf, NoneStr, NoneStr)
CfgTw == RawCfg(XUrlA, "None", FALSE, NoneStr, PatBad, PatMust)
CfgGhSkip == RawCfg(UrlGh, "get", TRUE, PatNf, <<>>, NoneStr)
CfgGh == RawCfg(UrlGh, "GET", FALSE, NoneStr, NoneStr, PatMust)
CfgNoUrl == RawCfg(NoneStr, "head", FALSE, NoneStr, NoneStr, NoneStr)
CfgTwoFields == RawCfg(UrlTwo, "None", FALSE, NoneStr, NoneStr, NoneStr)
CfgBadRegex == RawCfg(UrlGh, "None", FALSE, BadRegex, NoneStr, NoneStr)
CfgPost == RawCfg(UrlGh, "post", FALSE, NoneStr, NoneStr, PatMust)
CfgHeadNf == RawCfg(UrlGh, "head", FALSE, PatNf, NoneStr, NoneStr)
CfgPlain == RawCfg(UrlTco, "GET", FALSE, NoneStr, <<>>, NoneStr)

Item(name, cfg) == [name |-> name, cfg |-> cfg]
RawCatalog(exists, isObject, items) ==
    [exists |-> exists, isObject |-> isObject, items |-> items]

\* the sites.json files explored
Catalogs ==
    << RawCatalog(TRUE, TRUE,
                  <<Item(NameX, CfgX), Item(NameTw, CfgTw), Item(NameGh, CfgGhSkip)>>),
       RawCatalog(TRUE, TRUE, <<Item(NameX, CfgX), Item(NameGh, CfgGh)>>),
       RawCatalog(TRUE, TRUE,
                  <<Item(NameGh, CfgPost), Item(NameA, CfgNoUrl), Item(NameB, CfgTwoFields)>>),
       RawCatalog(TRUE, TRUE, <<>>),
       RawCatalog(FALSE, FALSE, <<>>),
       RawCatalog(TRUE, FALSE, <<>>),
       RawCatalog(TRUE, TRUE, <<Item(NameGh, CfgBadRegex)>>),
       RawCatalog(TRUE, TRUE, <<Item(NameGh, CfgHeadNf), Item(NameA, CfgPlain)>>) >>

\* the usernames given on the command line
Usernames == { <<>>, <<" ">>, <<" ","A">> }

\* the default of --max-variants
DefaultMaxVariants == 12

\* the command lines explored: every catalog with one handle, and the
\* second catalog with --variants
ArgsSet ==
    [sites : 1..Len(Catalogs), include_skipped : BOOLEAN,
     concurrency : 1..MaxConcurrency, username : Usernames,
     variants : {FALSE}, max_variants : {DefaultMaxVariants}]
    \cup
    [sites : {2}, include_skipped : {FALSE},
     concurrency : 1..MaxConcurrency, username : {<<" ","A">>},
     variants : {TRUE}, max_variants : {1, 2}]

\* two of the variations generate_username_variations builds from base:
\* base itself and "mr" + base
VariantPool(base) == { base, <<"m","r">> \o base }

Min(a, b) == IF a <= b THEN a ELSE b

\* generate_username_variations: the shuffled variations cut to
\* max_variants; any order of any max_variants distinct variations
generate_username_variations(base, max_variants) ==
    LET pool == VariantPool(base)
        n == Min(max_variants, Cardinality(pool))
    IN  { q \in [1..n -> pool] : \A i, j \in 1..n : i # j => q[i] # q[j] }

\* the exceptions an attempt can end with
Exceptions == {"ClientError", "TimeoutError", "Exception"}

\* statuses the probed sites answer with
Statuses == {200, 404, 429, 301}

UrlPlain == <<"u">>
UrlLogin == <<"/","L","o","g">>

\* what a site may answer to a request with method m; the response to a
\* HEAD request carries no body
Responses(m) ==
    [status : Statuses, url : {UrlPlain, UrlLogin}, history : {<<>>},
     chunks : IF m = "HEAD" THEN {<<>>}
              ELSE { <<>>, <<<<"N","f">>>>, <<<<"o">>, <<"k">>>> },
     readExc : {"no"} \cup Exceptions]

\* ------------------------------------------------------------------ probe

\* number of "{}" fields of a template
RECURSIVE Fields(_)
Fields(t) ==
    IF t = <<>> THEN 0
    ELSE (IF Head(t) = "{}" THEN 1 ELSE 0) + Fields(Tail(t))

RECURSIVE Substitute(_, _)
Substitute(t, username) ==
    IF t = <<>> THEN <<>>
    ELSE (IF Head(t) = "{}" THEN username ELSE <<Head(t)>>)
         \o Substitute(Tail(t), username)

\* str(site_data["url"]).format(username): KeyError without the key,
\* IndexError with a second field; raised = TRUE stands for either
BuildUrl(site_data, username) ==
    IF site_data.url = NoneStr THEN [raised |-> TRUE, url |-> <<>>]
    ELSE IF Fields(site_data.url) > 1 THEN [raised |-> TRUE, url |-> <<>>]
    ELSE [raised |-> FALSE, url |-> Substitute(site_data.url, username)]

\* str(site_data.get("method", "HEAD")).upper()
MethodOf(site_data) ==
    Upper(IF site_data.method = "None" THEN "HEAD" ELSE site_data.method)

\* range(3) of the attempt loop
MaxAttempts == 3

\* mutant: 429 is missing from the fallback statuses
NeedsGetNo429(method, status) ==
    method = "HEAD" /\ status \in {403, 405, 500, 502, 503}

\* mutant: a HEAD answered 200 is followed by a GET as well
NeedsGetAlso200(method, status) ==
    method = "HEAD" /\ status \in {200, 403, 405, 429, 500, 502, 503}

\* mutant: the fallback is taken whatever the profile's method
NeedsGetAnyMethod(method, status) ==
    status \in {403, 405, 429, 500, 502, 503}

\* the statuses on which a HEAD probe falls back to GET
NeedsGet(method, status) ==
    method = "HEAD" /\ status \in {403, 405, 429, 500, 502, 503}

\* mutant: the except clauses return one attempt late
OnExceptionLate(exc, attempt) ==
    IF attempt = 3 THEN "return" ELSE "sleep"

\* the two except clauses: "return" on the last attempt, else "sleep"
OnException(exc, attempt) ==
    IF exc \in {"ClientError", "TimeoutError"}
    THEN IF attempt = 2 THEN "return" ELSE "sleep"
    ELSE IF attempt = 2 THEN "return" ELSE "sleep"

\* mutant: the backoff does not grow
BackoffFlat(attempt) == 250

\* 0.25 * (2 ** attempt) seconds, in milliseconds
Backoff(attempt) == 250 * (2 ^ attempt)

\* ------------------------------------------------------------------ enrichment

\* what x.com may answer to fetch_x_bio: the request or the read failing, a
\* status, and the page's UserDescription block and meta description
\* (NoneStr when the page has none)
BioTexts == { NoneStr, <<>>, <<" ","h","i">> }
FetchResponses ==
    [fails : BOOLEAN, status : {200, 404}, desc : BioTexts, meta : BioTexts]

\* bio[:80] + "..." when longer than 80
Shorten(bio) ==
    IF Len(bio) > 80 THEN SubSeq(bio, 1, 80) \o <<".",".",".">> ELSE bio

\* fetch_x_bio: the bio, or NoneStr for None
fetch_x_bio(resp) ==
    IF resp.fails THEN NoneStr
    ELSE IF resp.status # 200 THEN NoneStr
    ELSE IF resp.desc # NoneStr THEN Shorten(Strip(resp.desc))
    ELSE IF resp.meta # NoneStr THEN Shorten(Strip(resp.meta))
    ELSE NoneStr

\* ------------------------------------------------------------------ state

VARIABLES
    args,                \* the parsed command line
    scanPc,              \* where run_scan is: start, sweep, fetch, done, raised
    raisedBy,            \* what raised out of run_scan: none, load_sites, empty, probe
    sites,               \* the included (name, cfg) items
    usernames_to_check,  \* the handles of the scan
    h,                   \* index of the handle being swept (0 before the first)
    sem,                 \* value of the semaphore
    task,                \* the check_username task of each included site
    results,             \* results of the current handle, in completion order
    x_exists,
    all_results,         \* handle -> results
    summary_data,
    bios_cache,          \* handle -> bio
    fetched,             \* the handles fetch_x_bio was called with, in order
    fetchLog,            \* how each call of fetch_x_bio ended: failed, returned
    clSite,              \* classifier alone: the site_data given
    clResp,              \* classifier alone: the response given
    clOut                \* classifier alone: the classification, or <<>>

vars ==
    <<args, scanPc, raisedBy, sites, usernames_to_check, h, sem, task, results,
      x_exists, all_results, summary_data, bios_cache, fetched, fetchLog,
      clSite, clResp, clOut>>

scanVars ==
    <<args, scanPc, raisedBy, sites, usernames_to_check, h, sem, task, results,
      x_exists, all_results, summary_data, bios_cache, fetched, fetchLog>>

clVars == <<clSite, clResp, clOut>>

\* A task: pc is new, acquire (at `async with sem`), req1 (the request with
\* the profile's method in flight), req2 (the GET follow-up in flight),
\* sleep (backoff), done (returned) or raised.  attempt is the loop index.
\* History of a running probe: tries = attempts begun, fails = attempts
\* ended by an exception, gets = GET follow-ups issued.  History of the
\* last attempt begun: headStatus = the status answered to its HEAD request
\* (0: none, or the method is not HEAD), getsNow = its GET follow-ups.
\* waits = the backoff sleeps begun, in milliseconds.
\* A returned task keeps ret (the tuple), how (classified: returned by
\* interpret_response, exhausted: returned by an except clause), cls (the
\* response interpret_response returned on: the method of its request, its
\* status, whether looks_like_bad_redirect matched it) and the last
\* attempt's history; the loop's locals are gone.
NoCls == [via |-> "", status |-> 0, bad |-> FALSE]

NewTask ==
    [pc |-> "new", attempt |-> 0, tries |-> 0, fails |-> 0, gets |-> 0,
     getsNow |-> 0, headStatus |-> 0, waits |-> <<>>, how |-> "", ret |-> <<>>,
     cls |-> NoCls]

Tasks == DOMAIN task

uname == usernames_to_check[h]

\* sites.get(site, {}) for a site of the sweep
SiteData(site) ==
    (CHOOSE it \in {sites[i] : i \in DOMAIN sites} : it.name = site).cfg

UrlOf(i) == BuildUrl(sites[i].cfg, uname).url

\* probes with a request in flight: a task stays at req1 or req2 from the
\* request until interpret_response has read the body and returned
InFlight == { i \in Tasks : task[i].pc \in {"req1", "req2"} }

\* ------------------------------------------------------------------ run_scan

\* d[k] = v on a dict
Put(d, k, v) == [x \in (DOMAIN d) \cup {k} |-> IF x = k THEN v ELSE d[x]]

\* sum(1 for _, e, _ in results if e is True)
Found(res) == Cardinality({ i \in 1..Len(res) : res[i][2] = PyTrue })

\* the classifier's variables, left alone by the scan
ClIdle ==
    [raised |-> "no", site |-> <<>>, exists |-> "pending", url |-> <<>>,
     reads |-> 0]

\* the tasks list of one handle and the locals reset for it
BeginHandle(k, sts) ==
    /\ h' = k
    /\ task' = [i \in 1..Len(sts) |-> NewTask]
    /\ results' = <<>>
    /\ x_exists' = FALSE
    /\ scanPc' = "sweep"

\* the end of the body of `for uname in usernames_to_check` and the loop's
\* next step
StoreAndAdvance ==
    /\ summary_data' = Append(summary_data, <<uname, Found(results), Len(results)>>)
    /\ all_results' = Put(all_results, uname, results)
    /\ IF h < Len(usernames_to_check)
       THEN BeginHandle(h + 1, sites)
       ELSE scanPc' = "done" /\ UNCHANGED <<h, task, results, x_exists>>

\* run_scan up to its first await: load_sites, the skip filter, the handle
\* check, the handle list, the semaphore and the first handle's tasks
StartScan ==
    /\ scanPc = "start"
    /\ LET loaded == load_sites(Catalogs[args.sites])
           base == Lower(Strip(args.username))
       IN  \/ /\ ~loaded.ok
              /\ scanPc' = "raised"
              /\ raisedBy' = "load_sites"
              /\ UNCHANGED <<sites, usernames_to_check, h, sem, task, results, x_exists>>
           \/ /\ loaded.ok
              /\ base = <<>>
              /\ scanPc' = "raised"
              /\ raisedBy' = "empty"
              /\ UNCHANGED <<sites, usernames_to_check, h, sem, task, results, x_exists>>
           \/ /\ loaded.ok
              /\ base # <<>>
              /\ \E names \in IF args.variants
                              THEN generate_username_variations(base, args.max_variants)
                              ELSE {<<base>>} :
                    /\ usernames_to_check' = names
                    /\ sites' = FilterSites(loaded.sites, args.include_skipped)
                    /\ sem' = args.concurrency
                    /\ BeginHandle(1, sites')
              /\ UNCHANGED raisedBy
    /\ UNCHANGED <<args, all_results, summary_data, bios_cache, fetched, fetchLog>>
    /\ UNCHANGED clVars

\* ------------------------------------------------------------------ check_username

\* mutant: x_exists is overwritten by each result instead of latched
FinishLastWins(i, t, how, tup) ==
    /\ task' = [task EXCEPT ![i] =
                  [t EXCEPT !.pc = "done", !.how = how, !.ret = tup,
                            !.attempt = 0, !.tries = 0, !.fails = 0, !.gets = 0,
                            !.waits = <<>>]]
    /\ results' = Append(results, tup)
    /\ x_exists' = (tup[2] = PyTrue /\ is_x_site(tup[1], SiteData(tup[1])))

\* a task returns: as_completed hands the tuple to run_scan, which appends
\* it and updates x_exists
Finish(i, t, how, tup) ==
    /\ task' = [task EXCEPT ![i] =
                  [t EXCEPT !.pc = "done", !.how = how, !.ret = tup,
                            !.attempt = 0, !.tries = 0, !.fails = 0, !.gets = 0,
                            !.waits = <<>>]]
    /\ results' = Append(results, tup)
    /\ x_exists' = (x_exists \/ (tup[2] = PyTrue /\ is_x_site(tup[1], SiteData(tup[1]))))

\* mutant: the slot stays taken when an exception leaves the attempt
FailedKeepsSlot(i, t, exc) ==
    LET t2 == [t EXCEPT !.fails = @ + 1]
    IN  /\ sem' = sem
        /\ IF OnException(exc, t.attempt) = "return"
           THEN Finish(i, t2, "exhausted", <<sites[i].name, None, UrlOf(i)>>)
           ELSE /\ task' = [task EXCEPT ![i] =
                              [t2 EXCEPT !.pc = "sleep",
                                         !.waits = Append(@, Backoff(t.attempt))]]
                /\ UNCHANGED <<results, x_exists>>

\* an exception leaves `async with sem` (the slot is released) and reaches
\* an except clause: the return of the last attempt, or the backoff sleep
Failed(i, t, exc) ==
    LET t2 == [t EXCEPT !.fails = @ + 1]
    IN  /\ sem' = sem + 1
        /\ IF OnException(exc, t.attempt) = "return"
           THEN Finish(i, t2, "exhausted", <<sites[i].name, None, UrlOf(i)>>)
           ELSE /\ task' = [task EXCEPT ![i] =
                              [t2 EXCEPT !.pc = "sleep",
                                         !.waits = Append(@, Backoff(t.attempt))]]
                /\ UNCHANGED <<results, x_exists>>

\* mutant: a throttled status sends the probe to the backoff sleep
ClassifiedRetryOnStatus(i, t, via, a) ==
    IF a.r.raised # "no"
    THEN Failed(i, t, a.r.raised)
    ELSE IF a.status = 429 /\ t.attempt < 2
         THEN /\ sem' = sem + 1
              /\ task' = [task EXCEPT ![i] =
                            [t EXCEPT !.pc = "sleep",
                                      !.waits = Append(@, Backoff(t.attempt))]]
              /\ UNCHANGED <<results, x_exists>>
    ELSE /\ sem' = sem + 1
         /\ Finish(i, [t EXCEPT !.cls = [via |-> via, status |-> a.status,
                                         bad |-> a.bad]],
                   "classified", <<a.r.site, a.r.exists, a.r.url>>)

\* the end of interpret_response on the answer a to the request with method
\* via of task i, inside `async with sem`: the read raised, or the tuple is
\* returned
Classified(i, t, via, a) ==
    IF a.r.raised # "no"
    THEN Failed(i, t, a.r.raised)
    ELSE /\ sem' = sem + 1
         /\ Finish(i, [t EXCEPT !.cls = [via |-> via, status |-> a.status,
                                         bad |-> a.bad]],
                   "classified", <<a.r.site, a.r.exists, a.r.url>>)

\* what the answer to a request of task i with method m can come to: its
\* status, whether looks_like_bad_redirect matches it, and what
\* interpret_response gives on it
Answers(i, m) ==
    { [status |-> resp.status,
       bad |-> looks_like_bad_redirect(sites[i].cfg, resp),
       r |-> interpret_response(sites[i].name, sites[i].cfg, UrlOf(i), resp)] :
      resp \in Responses(m) }

TaskFrame ==
    /\ UNCHANGED <<args, raisedBy, sites, usernames_to_check, h, all_results,
                   summary_data, bios_cache, fetched, fetchLog>>
    /\ UNCHANGED clVars

\* the task's first step: the URL and the method; an exception raised here
\* is outside the try and is raised again by `await fut` in run_scan
StartTask(i) ==
    /\ scanPc = "sweep"
    /\ task[i].pc = "new"
    /\ IF BuildUrl(sites[i].cfg, uname).raised
       THEN /\ task' = [task EXCEPT ![i].pc = "raised"]
            /\ scanPc' = "raised"
            /\ raisedBy' = "probe"
       ELSE /\ task' = [task EXCEPT ![i].pc = "acquire"]
            /\ UNCHANGED <<scanPc, raisedBy>>
    /\ UNCHANGED <<args, sites, usernames_to_check, h, sem, results, x_exists,
                   all_results, summary_data, bios_cache, fetched, fetchLog>>
    /\ UNCHANGED clVars

\* mutant: the semaphore never blocks
CanAcquireAlways(value) == TRUE

\* the guard of `async with sem`
CanAcquire(value) == value > 0

\* `async with sem` and the request with the profile's method
Acquire(i) ==
    /\ scanPc = "sweep"
    /\ task[i].pc = "acquire"
    /\ CanAcquire(sem)
    /\ sem' = sem - 1
    /\ task' = [task EXCEPT ![i].pc = "req1", ![i].tries = @ + 1,
                            ![i].headStatus = 0, ![i].getsNow = 0]
    /\ UNCHANGED <<scanPc, results, x_exists>>
    /\ TaskFrame

\* the first request is answered: the GET follow-up, or the classification
Respond(i) ==
    /\ scanPc = "sweep"
    /\ task[i].pc = "req1"
    /\ \E a \in Answers(i, MethodOf(sites[i].cfg)) :
          LET method == MethodOf(sites[i].cfg)
              t == [task[i] EXCEPT
                      !.headStatus = IF method = "HEAD" THEN a.status ELSE 0]
          IN  IF NeedsGet(method, a.status)
              THEN /\ task' = [task EXCEPT ![i] =
                                 [t EXCEPT !.pc = "req2", !.gets = @ + 1,
                                           !.getsNow = @ + 1]]
                   /\ UNCHANGED <<sem, results, x_exists>>
              ELSE Classified(i, t, method, a)
    /\ UNCHANGED scanPc
    /\ TaskFrame

\* the GET follow-up is answered
RespondGet(i) ==
    /\ scanPc = "sweep"
    /\ task[i].pc = "req2"
    /\ \E a \in Answers(i, "GET") : Classified(i, task[i], "GET", a)
    /\ UNCHANGED scanPc
    /\ TaskFrame

\* a request in flight fails or times out
RequestFails(i, exc) ==
    /\ scanPc = "sweep"
    /\ task[i].pc \in {"req1", "req2"}
    /\ Failed(i, task[i], exc)
    /\ UNCHANGED scanPc
    /\ TaskFrame

\* the backoff sleep ends and the loop takes its next attempt (the except
\* clauses return on the last attempt, so the loop never runs out and the
\* return after it is not reached)
Wake(i) ==
    /\ scanPc = "sweep"
    /\ task[i].pc = "sleep"
    /\ task[i].attempt + 1 < MaxAttempts
    /\ task' = [task EXCEPT ![i].pc = "acquire", ![i].attempt = @ + 1]
    /\ UNCHANGED <<scanPc, sem, results, x_exists>>
    /\ TaskFrame

\* ------------------------------------------------------------------ run_scan, after the sweep

\* mutant: the sweep ends at the first result
EndSweepEarly ==
    /\ scanPc = "sweep"
    /\ \E i \in Tasks : task[i].pc = "done"
    /\ IF x_exists
       THEN /\ scanPc' = "fetch"
            /\ fetched' = Append(fetched, uname)
            /\ UNCHANGED <<h, task, results, x_exists, all_results, summary_data,
                           bios_cache>>
       ELSE /\ StoreAndAdvance
            /\ UNCHANGED <<bios_cache, fetched>>
    /\ UNCHANGED <<args, raisedBy, sites, usernames_to_check, sem, fetchLog>>
    /\ UNCHANGED clVars

\* as_completed is exhausted: the enrichment fetch is issued, or the handle
\* is stored
EndSweep ==
    /\ scanPc = "sweep"
    /\ \A i \in Tasks : task[i].pc = "done"
    /\ IF x_exists
       THEN /\ scanPc' = "fetch"
            /\ fetched' = Append(fetched, uname)
            /\ UNCHANGED <<h, task, results, x_exists, all_results, summary_data,
                           bios_cache>>
       ELSE /\ StoreAndAdvance
            /\ UNCHANGED <<bios_cache, fetched>>
    /\ UNCHANGED <<args, raisedBy, sites, usernames_to_check, sem, fetchLog>>
    /\ UNCHANGED clVars

\* mutant: whatever fetch_x_bio returns is recorded as the bio
RecordBioAlways(cache, handle, bio) == Put(cache, handle, bio)

\* `if bio: bios_cache[uname] = bio`
RecordBio(cache, handle, bio) ==
    IF bio # NoneStr /\ bio # <<>> THEN Put(cache, handle, bio) ELSE cache

\* fetch_x_bio returns
FetchReturns(resp) ==
    /\ scanPc = "fetch"
    /\ bios_cache' = RecordBio(bios_cache, uname, fetch_x_bio(resp))
    /\ fetchLog' = Append(fetchLog, IF resp.fails THEN "failed" ELSE "returned")
    /\ StoreAndAdvance
    /\ UNCHANGED <<args, raisedBy, sites, usernames_to_check, sem, fetched>>
    /\ UNCHANGED clVars

\* ------------------------------------------------------------------ specification

Init ==
    /\ args \in ArgsSet
    /\ scanPc = "start"
    /\ raisedBy = "none"
    /\ sites = <<>>
    /\ usernames_to_check = <<>>
    /\ h = 0
    /\ sem = 0
    /\ task = <<>>
    /\ results = <<>>
    /\ x_exists = FALSE
    /\ all_results = <<>>
    /\ summary_data = <<>>
    /\ bios_cache = <<>>
    /\ fetched = <<>>
    /\ fetchLog = <<>>
    /\ clSite = Compiled(CfgX)
    /\ clResp = [status |-> 200, url |-> UrlPlain, history |-> <<>>,
                 chunks |-> <<>>, readExc |-> "no"]
    /\ clOut = ClIdle

Next ==
    \/ StartScan
    \/ \E i \in Tasks : StartTask(i)
    \/ \E i \in Tasks : Acquire(i)
    \/ \E i \in Tasks : Respond(i)
    \/ \E i \in Tasks : RespondGet(i)
    \/ \E i \in Tasks : \E exc \in Exceptions : RequestFails(i, exc)
    \/ \E i \in Tasks : Wake(i)
    \/ EndSweep
    \/ \E resp \in FetchResponses : FetchReturns(resp)

Spec == Init /\ [][Next]_vars

\* ------------------------------------------------------------------ the classifier alone

\* every combination of configured patterns; an empty pattern text is one
\* way of leaving a pattern out
ClSites ==
    { Compiled(RawCfg(UrlGh, "None", FALSE, nf, bad, must)) :
        nf \in {NoneStr, <<>>, PatNf}, bad \in {NoneStr, PatBad},
        must \in {NoneStr, PatMust} }

ClResponses ==
    [status : {200, 204, 301, 403, 404, 410, 429, 500},
     url : {UrlPlain, UrlLogin},
     history : { <<>>, <<UrlLogin>>, <<UrlPlain, UrlLogin>> },
     chunks : { <<>>, <<<<"N","f">>>>, <<<<"o">>, <<"k">>>>,
                <<<<"n","F","o">>, <<BadByte,"K">>>> },
     readExc : {"no", "ClientError"}]

ClUrl == Substitute(UrlGh, <<"a">>)

InitClassify ==
    /\ args = [sites |-> 1, include_skipped |-> FALSE, concurrency |-> 1,
               username |-> <<>>, variants |-> FALSE,
               max_variants |-> DefaultMaxVariants]
    /\ scanPc = "idle"
    /\ raisedBy = "none"
    /\ sites = <<>>
    /\ usernames_to_check = <<>>
    /\ h = 0
    /\ sem = 0
    /\ task = <<>>
    /\ results = <<>>
    /\ x_exists = FALSE
    /\ all_results = <<>>
    /\ summary_data = <<>>
    /\ bios_cache = <<>>
    /\ fetched = <<>>
    /\ fetchLog = <<>>
    /\ clSite \in ClSites
    /\ clResp \in ClResponses
    /\ clOut = ClIdle

\* one call of interpret_response
Classify ==
    /\ clOut = ClIdle
    /\ clOut' = interpret_response(NameGh, clSite, ClUrl, clResp)
    /\ UNCHANGED <<clSite, clResp>>
    /\ UNCHANGED scanVars

NextClassify == Classify

SpecClassify == InitClassify /\ [][NextClassify]_vars

\* ------------------------------------------------------------------ claims

IsHead(i) == MethodOf(sites[i].cfg) = "HEAD"

\* C1: nothing raised inside a probe aborts the scan: when run_scan has
\* raised, it was load_sites or the empty handle that raised, and no probe
\* task had been created.
C1_OnlyConfigurationAborts ==
    scanPc = "raised" => (raisedBy \in {"load_sites", "empty"} /\ task = <<>>)

\* C2: a probe never begins a 4th attempt; an attempt that fails goes on to
\* the backoff sleep when it was the 1st or 2nd and makes the probe return
\* Uncertain with the URL built at the start when it was the 3rd; a probe
\* returns from an except clause only after exactly 3 attempts, and
\* run_scan goes on with the sweep.
C2_RetryCap ==
    [][\A i \in (DOMAIN task) \cap (DOMAIN task') :
          /\ task'[i].tries <= 3
          /\ (task[i].pc \in {"req1", "req2"} /\ task'[i].pc = "sleep")
                => (task[i].tries < 3 /\ task'[i].fails = task[i].tries)
          /\ (task[i].pc \in {"req1", "req2"} /\ task[i].tries = 3)
                => task'[i].pc \in {"req1", "req2", "done"}
          /\ (task[i].pc # "done" /\ task'[i].pc = "done"
                /\ task'[i].how = "exhausted")
                => /\ task[i].tries = 3
                   /\ task[i].fails = 2
                   /\ task'[i].ret = <<sites[i].name, None, UrlOf(i)>>
                   /\ scanPc' = "sweep"]_vars

C2_Witness ==
    \E i \in Tasks :
        task[i].pc = "done" /\ task[i].how = "exhausted" /\ task[i].ret[2] = None

\* C3 as claimed: while a HEAD probe runs, a HEAD response with status 429
\* means exactly one GET was issued during the probe, and a HEAD response
\* with status 200 means none was.
C3_OneGetPerProbe ==
    \A i \in Tasks :
        (IsHead(i) /\ task[i].pc \in {"req2", "sleep"})
            => /\ task[i].headStatus = 429 => task[i].gets = 1
               /\ task[i].headStatus = 200 => task[i].gets = 0

\* C3 amended: in every attempt of a HEAD probe, a HEAD response with
\* status 429 is followed by exactly one GET in that attempt, whatever the
\* GET's outcome, and a HEAD response with status 200 by none; an attempt
\* never issues two.
C3_OneGetPerAttempt ==
    \A i \in Tasks :
        IsHead(i)
            => /\ task[i].headStatus = 429 => task[i].getsNow = 1
               /\ task[i].headStatus = 200 => task[i].getsNow = 0
               /\ task[i].getsNow <= 1
               /\ task[i].pc = "req2" => task[i].getsNow = 1

\* the GET after a 429 failed in transport, and the probe has issued a
\* second GET in its next attempt
C3_Witness ==
    \E i \in Tasks :
        /\ IsHead(i)
        /\ task[i].pc = "req2"
        /\ task[i].headStatus = 429
        /\ task[i].getsNow = 1
        /\ task[i].gets = 2

\* C4: at most args.concurrency probes have a request in flight.
C4_ConcurrencyBound ==
    scanPc # "start" => Cardinality(InFlight) <= args.concurrency

C4_Witness ==
    /\ Cardinality(InFlight) = args.concurrency
    /\ \E i \in Tasks : task[i].pc = "acquire"

\* the names of the catalog's profiles that are included / excluded
IncludedNames ==
    { it.name : it \in { x \in { Catalogs[args.sites].items[k] :
                                   k \in 1..Len(Catalogs[args.sites].items) } :
                           ~x.cfg.skip \/ args.include_skipped } }

ExcludedNames ==
    { it.name : it \in { x \in { Catalogs[args.sites].items[k] :
                                   k \in 1..Len(Catalogs[args.sites].items) } :
                           x.cfg.skip /\ ~args.include_skipped } }

\* C5: when the scan completes, every handle has exactly one result per
\* included profile, none for an excluded one, and every verdict is one of
\* the three.
C5_OneResultPerPair ==
    scanPc = "done" =>
        \A k \in 1..Len(usernames_to_check) :
            LET u == usernames_to_check[k]
            IN  /\ u \in DOMAIN all_results
                /\ \A n \in IncludedNames :
                      Cardinality({ j \in 1..Len(all_results[u]) :
                                      all_results[u][j][1] = n }) = 1
                /\ \A j \in 1..Len(all_results[u]) :
                      /\ all_results[u][j][1] \notin ExcludedNames
                      /\ all_results[u][j][1] \in IncludedNames
                      /\ all_results[u][j][2] \in Verdicts

\* a completed scan that left a skipped profile out and kept two
C5_Witness ==
    /\ scanPc = "done"
    /\ ExcludedNames # {}
    /\ \E u \in DOMAIN all_results : Len(all_results[u]) = 2

\* the bad-redirect pattern is configured and matches the final URL or a
\* URL of the redirect history
BadRedirectMatches ==
    /\ clSite.bad_redirect_re # NoneStr
    /\ \/ re_search(clSite.bad_redirect_re, clResp.url)
       \/ \E k \in 1..Len(clResp.history) :
             re_search(clSite.bad_redirect_re, clResp.history[k])

\* the whole body, decoded
RECURSIVE Concat(_)
Concat(chunks) ==
    IF chunks = <<>> THEN <<>> ELSE Decode(Head(chunks)) \o Concat(Tail(chunks))

ClBody == Concat(clResp.chunks)

\* C6 as claimed: a matching bad-redirect pattern gives Uncertain whatever
\* the status.
C6_BadRedirectAnyStatus ==
    (clOut # ClIdle /\ BadRedirectMatches)
        => (clOut.raised = "no" /\ clOut.exists = None)

\* C6 amended: a matching bad-redirect pattern gives Uncertain, without a
\* read of the body, whatever the other patterns and the body are, for
\* every status other than 404 and 410.
C6_BadRedirectUncertain ==
    (clOut # ClIdle /\ BadRedirectMatches /\ clResp.status \notin {404, 410})
        => (clOut.raised = "no" /\ clOut.exists = None /\ clOut.reads = 0)

\* status 200, the must-contain pattern matches the body, and the bad
\* redirect is in the history only
C6_Witness ==
    /\ clOut # ClIdle
    /\ clResp.status = 200
    /\ clSite.must_re # NoneStr
    /\ re_search(clSite.must_re, ClBody)
    /\ clSite.bad_redirect_re # NoneStr
    /\ ~re_search(clSite.bad_redirect_re, clResp.url)
    /\ BadRedirectMatches
    /\ clOut.exists = None

\* C7: status 404 or 410 gives NotFound whatever the patterns, the redirect
\* chain and the body, and the body is not read.
C7_HardNotFound ==
    (clOut # ClIdle /\ clResp.status \in {404, 410})
        => (clOut.raised = "no" /\ clOut.exists = PyFalse /\ clOut.reads = 0)

\* status 410 with the three patterns configured and the bad redirect and
\* the must-contain pattern matching
C7_Witness ==
    /\ clOut # ClIdle
    /\ clResp.status = 410
    /\ clSite.not_found_re # NoneStr
    /\ clSite.must_re # NoneStr
    /\ re_search(clSite.must_re, ClBody)
    /\ BadRedirectMatches
    /\ clOut.exists = PyFalse

\* the table of C8
C8_Table ==
    LET nf == clSite.not_found_re
        must == clSite.must_re
    IN  IF nf = NoneStr /\ must = NoneStr THEN None
        ELSE IF nf # NoneStr /\ re_search(nf, ClBody) THEN PyFalse
        ELSE IF must # NoneStr
             THEN IF re_search(must, ClBody) THEN PyTrue ELSE None
        ELSE PyTrue

\* C8: with status 200 and no bad-redirect match, the verdict is the one of
\* the table, for every combination of patterns and body (a classification
\* with no pattern configured never fails; one that reads the body gives
\* the table's verdict when the read succeeds).
C8_Status200Table ==
    (clOut # ClIdle /\ clResp.status = 200 /\ ~BadRedirectMatches)
        => /\ clOut.raised = "no" => clOut.exists = C8_Table
           /\ (clSite.not_found_re = NoneStr /\ clSite.must_re = NoneStr)
                 => clOut.raised = "no"
           /\ clResp.readExc = "no" => clOut.raised = "no"

\* both body patterns configured and matching: NotFound wins
C8_Witness ==
    /\ clOut # ClIdle
    /\ clResp.status = 200
    /\ ~BadRedirectMatches
    /\ clSite.not_found_re # NoneStr
    /\ clSite.must_re # NoneStr
    /\ re_search(clSite.not_found_re, ClBody)
    /\ re_search(clSite.must_re, ClBody)
    /\ clOut.exists = PyFalse

\* a result with verdict Exists on a high-signal profile of the catalog
XHit(tup) ==
    /\ tup[2] = PyTrue
    /\ \E k \in 1..Len(Catalogs[args.sites].items) :
          /\ Catalogs[args.sites].items[k].name = tup[1]
          /\ is_x_site(tup[1], Catalogs[args.sites].items[k].cfg)

Count(seq, x) == Cardinality({ j \in 1..Len(seq) : seq[j] = x })

\* C9: a stored handle was fetched once if one of its results is an Exists
\* on a high-signal profile and never otherwise; no handle is fetched
\* twice; the fetch is issued only when every probe of the handle has
\* returned; a bio is recorded only for a fetched handle.
C9_OneEnrichment ==
    /\ \A u \in DOMAIN all_results :
          Count(fetched, u) =
              IF \E j \in 1..Len(all_results[u]) : XHit(all_results[u][j])
              THEN 1 ELSE 0
    /\ \A k \in 1..Len(fetched) : Count(fetched, fetched[k]) = 1
    /\ scanPc = "sweep" => Count(fetched, uname) = 0
    /\ scanPc = "fetch" =>
          /\ Count(fetched, uname) = 1
          /\ \A i \in Tasks : task[i].pc = "done"
          /\ Len(results) = Len(sites)
    /\ \A u \in DOMAIN bios_cache : Count(fetched, u) = 1

\* two high-signal profiles reported Exists, then a third result came, and
\* the handle was fetched once
C9_Witness ==
    \E u \in DOMAIN all_results :
        /\ Len(all_results[u]) = 3
        /\ XHit(all_results[u][1])
        /\ XHit(all_results[u][2])
        /\ ~XHit(all_results[u][3])
        /\ Count(fetched, u) = 1
        /\ u \in DOMAIN bios_cache

\* C10: while a handle is swept or enriched, exactly the handles before it
\* are stored; the scan moves to the next handle only in a step that
\* stores the handle it leaves, taken when all of that handle's probes have
\* returned and its enrichment, if triggered, has been issued and returns;
\* the probes of the next handle are all unstarted then.
C10_OneHandleAtATime ==
    [][/\ scanPc \in {"sweep", "fetch"} =>
            /\ DOMAIN all_results = { usernames_to_check[k] : k \in 1..(h - 1) }
            /\ Len(summary_data) = h - 1
       /\ (h >= 1 /\ h' # h) =>
            /\ h' = h + 1
            /\ \A i \in Tasks : task[i].pc = "done"
            /\ InFlight = {}
            /\ x_exists <=> scanPc = "fetch"
            /\ x_exists => Count(fetched, uname) = 1
            /\ uname \in DOMAIN all_results'
            /\ all_results'[uname] = results
            /\ \A i \in DOMAIN task' : task'[i].pc = "new"]_vars

\* the second handle has a request in flight; the first was enriched and
\* stored
C10_Witness ==
    /\ h = 2
    /\ InFlight # {}
    /\ usernames_to_check[1] \in DOMAIN all_results
    /\ usernames_to_check[1] \in DOMAIN bios_cache

\* C11: once the probes of a handle have been started, every probe comes to
\* a result and the scan completes, so until the scan is complete some step
\* of it can always be taken: no probe and no scan is left with nothing to
\* wait for.  A finite run refutes it: a probe that raised while building
\* its URL has no result and leaves run_scan raised, with no step left.
C11_NeverStuck ==
    (h > 0 /\ scanPc # "done") => ENABLED Next

\* the blocked or throttled statuses of the method fallback
Blocked == {403, 405, 429, 500, 502, 503}

\* C12, as stated: whatever the profile's method, no verdict is the
\* classification of a first response with a blocked or throttled status (a
\* GET follow-up is classified instead).
C12_FallbackAnyMethod ==
    \A i \in Tasks :
        (task[i].pc = "done" /\ task[i].how = "classified" /\ task[i].getsNow = 0)
            => task[i].cls.status \notin Blocked

\* C12, amended: the first request of an attempt has the profile's method.
\* When that method is HEAD and the answer's status is blocked or throttled,
\* one GET follow-up is issued and the verdict is the classification of the
\* GET's answer; in every other case (another status, or a method other
\* than HEAD whatever the status) no follow-up is issued and the verdict is
\* the classification of the first answer.
C12_HeadFallback ==
    \A i \in Tasks :
        LET t == task[i]
            m == MethodOf(sites[i].cfg)
            fell == m = "HEAD" /\ t.headStatus \in Blocked
        IN  /\ m # "HEAD" => t.gets = 0 /\ t.getsNow = 0 /\ t.pc # "req2"
            /\ t.pc = "req2" => fell /\ t.getsNow = 1
            /\ (t.pc = "done" /\ t.how = "classified") =>
                  IF fell
                  THEN t.getsNow = 1 /\ t.cls.via = "GET"
                  ELSE /\ t.getsNow = 0
                       /\ t.cls.via = m
                       /\ m = "HEAD" => t.cls.status = t.headStatus

\* a HEAD probe returned on the answer to its GET follow-up, beside a probe
\* with another method that returned on a throttled first answer
C12_Witness ==
    /\ \E i \in Tasks :
          /\ MethodOf(sites[i].cfg) = "HEAD"
          /\ task[i].pc = "done" /\ task[i].how = "classified"
          /\ task[i].headStatus = 429 /\ task[i].cls.via = "GET"
    /\ \E j \in Tasks :
          /\ MethodOf(sites[j].cfg) # "HEAD"
          /\ task[j].pc = "done" /\ task[j].how = "classified"
          /\ task[j].cls.status = 429 /\ task[j].getsNow = 0

\* C13: interpret_response reads the body exactly once when the status is
\* 200, no configured bad-redirect pattern matches and a not-found or a
\* must-contain pattern is configured, and does not read it in any other
\* case.
C13_BodyReadOnlyWhenNeeded ==
    clOut # ClIdle =>
        clOut.reads =
            IF /\ clResp.status = 200
               /\ ~BadRedirectMatches
               /\ (clSite.not_found_re # NoneStr \/ clSite.must_re # NoneStr)
            THEN 1 ELSE 0

\* a 200 whose configured bad-redirect pattern does not match and whose
\* only body pattern is the must-contain one: the body is read, and the
\* read fails
C13_Witness ==
    /\ clOut # ClIdle
    /\ clResp.status = 200
    /\ clSite.bad_redirect_re # NoneStr
    /\ ~BadRedirectMatches
    /\ clSite.not_found_re = NoneStr
    /\ clSite.must_re # NoneStr
    /\ clOut.reads = 1
    /\ clOut.raised # "no"

\* C14: the tuple of every probe that returned, by whichever return, names
\* the profile the probe was created for and carries the URL built from the
\* profile's template and the handle, never the URL a response came from;
\* and every tuple run_scan collected is the tuple of such a probe.
C14_ResultNamesProfileAndUrl ==
    /\ \A i \in Tasks :
          task[i].pc = "done" =>
              /\ task[i].ret[1] = sites[i].name
              /\ task[i].ret[3] = Substitute(sites[i].cfg.url, uname)
              /\ task[i].ret[3] \notin {UrlPlain, UrlLogin}
    /\ \A k \in 1..Len(results) :
          \E i \in Tasks : task[i].pc = "done" /\ results[k] = task[i].ret

\* one probe returned by an except clause and another returned Exists on
\* the answer to its GET follow-up
C14_Witness ==
    /\ \E i \in Tasks :
          /\ task[i].pc = "done" /\ task[i].how = "exhausted"
          /\ task[i].ret[3] = Substitute(sites[i].cfg.url, uname)
    /\ \E j \in Tasks :
          /\ task[j].pc = "done" /\ task[j].cls.via = "GET" /\ task[j].getsNow = 1
          /\ task[j].ret = <<sites[j].name, PyTrue, Substitute(sites[j].cfg.url, uname)>>

\* C15: the step in which fetch_x_bio returns, whatever it returns, stores
\* for the handle exactly the tuples the sweep collected and the counts
\* taken from them, leaves the tuples stored for every other handle as they
\* were, and touches no bio but the handle's; when the fetch failed, no bio
\* is recorded at all.
C15_EnrichmentKeepsVerdicts ==
    [][ scanPc = "fetch" =>
          /\ all_results' = Put(all_results, uname, results)
          /\ \A u \in DOMAIN all_results :
                u # uname => all_results'[u] = all_results[u]
          /\ summary_data' = Append(summary_data, <<uname, Found(results), Len(results)>>)
          /\ \A u \in DOMAIN bios_cache' :
                u # uname => u \in DOMAIN bios_cache /\ bios_cache'[u] = bios_cache[u]
          /\ fetchLog'[Len(fetchLog')] = "failed" => bios_cache' = bios_cache
      ]_vars

\* two handles were enriched: the first fetch returned a bio, the second
\* failed, and both handles keep their tuples
C15_Witness ==
    /\ Len(fetched) = 2
    /\ fetchLog = <<"returned", "failed">>
    /\ fetched[1] \in DOMAIN bios_cache
    /\ fetched[2] \notin DOMAIN bios_cache
    /\ \A k \in 1..2 :
          /\ fetched[k] \in DOMAIN all_results
          /\ Found(all_results[fetched[k]]) >= 1

\* the profile of task i has a not-found or a must-contain pattern
HasBodyPattern(i) ==
    sites[i].cfg.not_found_re # NoneStr \/ sites[i].cfg.must_re # NoneStr

\* C16: a probe that returned Exists returned it from interpret_response, on
\* a response with status 200 that no configured bad-redirect pattern
\* matched, for a profile with a not-found or a must-contain pattern; a
\* probe returned by an except clause returned Uncertain.
C16_ExistsOnlyFrom200 ==
    \A i \in Tasks :
        /\ (task[i].pc = "done" /\ task[i].ret[2] = PyTrue) =>
              /\ task[i].how = "classified"
              /\ task[i].cls.status = 200
              /\ ~task[i].cls.bad
              /\ HasBodyPattern(i)
        /\ (task[i].pc = "done" /\ task[i].how = "exhausted") => task[i].ret[2] = None

\* one probe returned Exists on a 200, beside a probe of a profile without
\* body patterns that returned Uncertain on a 200
C16_Witness ==
    /\ \E i \in Tasks :
          /\ task[i].pc = "done" /\ task[i].ret[2] = PyTrue
          /\ task[i].cls.status = 200
    /\ \E j \in Tasks :
          /\ task[j].pc = "done" /\ ~HasBodyPattern(j)
          /\ task[j].cls.status = 200 /\ task[j].ret[2] = None

\* C17: a probe goes to sleep only out of a failed first or second attempt,
\* for 250 ms after the first and 500 ms after the second; nothing else adds
\* a wait; the failure of the third attempt does not lead to a sleep; and a
\* probe waits at most twice.
C17_BackoffSchedule ==
    [][ (scanPc = "sweep" /\ h' = h) =>
          \A i \in Tasks :
              LET t == task[i]
                  t2 == task'[i]
              IN  /\ (t.pc # "sleep" /\ t2.pc = "sleep") =>
                        /\ t.pc \in {"req1", "req2"}
                        /\ t.attempt < 2
                        /\ t2.fails = t.fails + 1
                        /\ t2.waits = Append(t.waits, IF t.attempt = 0 THEN 250 ELSE 500)
                  /\ (t2.pc \notin {"sleep", "done"} \/ t.pc = "sleep") => t2.waits = t.waits
                  /\ (t.pc \in {"req1", "req2"} /\ t.attempt = 2) => t2.pc # "sleep"
                  /\ Len(t2.waits) <= 2
                  /\ Len(t2.waits) <= t2.attempt + 1
      ]_vars

\* the third attempt of a probe is in flight, after waits of 250 and 500 ms
C17_Witness ==
    \E i \in Tasks :
        /\ task[i].pc = "req1"
        /\ task[i].attempt = 2
        /\ task[i].waits = <<250, 500>>

\* C18: once the semaphore exists, the slots taken from it are as many as
\* the probes inside an attempt (from `async with sem` to the return or the
\* exception that leaves it): a probe waiting for a slot, sleeping in a
\* backoff or returned holds none; and when the scan is complete every slot
\* is back.
C18_SlotsMatchAttempts ==
    h > 0 =>
        /\ sem >= 0
        /\ args.concurrency - sem = Cardinality(InFlight)
        /\ scanPc = "done" => (sem = args.concurrency /\ InFlight = {})

\* with a single slot, one probe sleeps in its backoff while another holds
\* the slot for its GET follow-up
C18_Witness ==
    /\ args.concurrency = 1
    /\ sem = 0
    /\ \E i, j \in Tasks :
          /\ task[i].pc = "sleep" /\ task[i].fails = 2
          /\ task[j].pc = "req2"

\* C19: a probe begins a new attempt only after an attempt ended by an
\* exception: the attempts begun are the failed ones, plus the one under
\* way; so an answered request, whatever its status, is never followed by
\* another attempt.  A probe issues at most 3 requests with its profile's
\* method and at most 3 GET follow-ups, at most one per attempt, and none at
\* all when its method is not HEAD.
C19_RetryOnlyOnFailure ==
    \A i \in Tasks :
        LET t == task[i]
        IN  /\ t.tries <= 3 /\ t.gets <= 3 /\ t.gets <= t.tries
            /\ t.tries + t.gets <= IF IsHead(i) THEN 6 ELSE 3
            /\ t.getsNow <= 1
            /\ t.pc \in {"req1", "req2"} => t.tries = t.fails + 1
            /\ t.pc \in {"acquire", "sleep"} => t.tries = t.fails
            /\ t.pc = "sleep" => t.fails >= 1

\* the sixth request of a HEAD probe is in flight: the GET follow-up of its
\* third attempt
C19_Witness ==
    \E i \in Tasks :
        /\ IsHead(i)
        /\ task[i].pc = "req2"
        /\ task[i].tries = 3
        /\ task[i].gets = 3
        /\ task[i].fails = 2

\* C20: a HEAD probe answered 200 issues no GET and returns what
\* interpret_response gives on the HEAD response, whose body is empty: with
\* no bad-redirect match, Uncertain when the profile has a must-contain
\* pattern, Exists when it has a not-found pattern only; Uncertain on a
\* bad-redirect match.
C20_HeadBodyIsEmpty ==
    \A i \in Tasks :
        (IsHead(i) /\ task[i].pc = "done" /\ task[i].how = "classified"
                   /\ task[i].headStatus = 200) =>
            /\ task[i].getsNow = 0
            /\ task[i].cls.via = "HEAD"
            /\ task[i].cls.status = 200
            /\ task[i].ret[2] =
                  IF task[i].cls.bad THEN None
                  ELSE IF sites[i].cfg.must_re # NoneStr THEN None
                  ELSE IF sites[i].cfg.not_found_re # NoneStr THEN PyTrue
                  ELSE None

\* a HEAD probe whose profile has a not-found pattern only returned Exists
\* on a 200, without a GET
C20_Witness ==
    \E i \in Tasks :
        /\ IsHead(i)
        /\ sites[i].cfg.not_found_re # NoneStr
        /\ sites[i].cfg.must_re = NoneStr
        /\ task[i].pc = "done"
        /\ task[i].headStatus = 200
        /\ task[i].getsNow = 0
        /\ task[i].ret[2] = PyTrue

====
